---- MODULE Spec2Model ----
(***************************************************************************)
(* AfriTube: the monetization ledger and the payout lifecycle.             *)
(*                                                                         *)
(* State: the users, earnings_records and payout_requests tables, the pk   *)
(* sequences of the three tables, and the position of one run of the       *)
(* seed_data management command.  Operations: the phases of seed_data that *)
(* write these tables, the admin console of admin.py (the add, change and  *)
(* delete views Django gives every registered ModelAdmin, and the          *)
(* 'Process payouts' action), and the channel_edit view.  Payout requests *)
(* are inserted by seed_payout_requests and edited by the change view and  *)
(* the action of PayoutRequestAdmin.                                       *)
(*                                                                         *)
(* Further parts, each with a specification of its own: the rate table    *)
(* (monetization_rates, written by seed_monetization_rates and the views   *)
(* of MonetizationRateAdmin; SpecRates), view tracking (video_detail and   *)
(* track_video_view as the sequence of their database statements, so that  *)
(* requests interleave; SpecViews), and the seed_data command alone with   *)
(* the start of its run recorded (SpecSeed).                               *)
(*                                                                         *)
(* The views of the site that the remaining parts cover, again one         *)
(* specification each: the content references of earnings entries          *)
(* (SpecReferences), access to premium and paid videos (SpecAccess), the   *)
(* creation of download tokens (SpecDownloads) and their use (SpecTokens), *)
(* live streams (SpecStreams), likes (SpecLikes), follows (SpecFollows)    *)
(* and the recommendations of the homepage (SpecIndex).  Views whose       *)
(* requests are followed through their database statements, so that two    *)
(* requests interleave, keep the requests in flight in a variable.         *)
(*                                                                         *)
(* Money is counted in units of 0.0001 USD, the precision of               *)
(* EarningsRecord.amount (decimal_places=4).  random.uniform ranges are    *)
(* sampled by small finite sets lying inside the range.                    *)
(***************************************************************************)
EXTENDS Integers, FiniteSets, Sequences, TLC

VARIABLES users, earnings, payouts, next_user_id, next_earning_id, next_payout_id, cmd,
          rates, next_rate_id,
          videos, video_views, next_view_id, requests,
          run_start,
          subscriptions, video_purchases, video_downloads, download_requests,
          live_streams, tickets, stream_viewers, stream_requests,
          video_likes, recommendations, index_requests, follows, follow_requests

\* run_start is a history variable, kept under SpecSeed: the pk sequences of
\* the earnings records and the payout requests at the start of the latest
\* run of seed_data

\* the monetization_rates table and its pk sequence
rate_vars == <<rates, next_rate_id>>

\* the videos and video_views tables, the pk sequence of video_views, and
\* the video_detail requests in flight
view_vars == <<videos, video_views, next_view_id, requests>>

\* the users, earnings_records and payout_requests tables with their pk
\* sequences, and the run of seed_data
ledger_vars == <<users, earnings, payouts, next_user_id, next_earning_id, next_payout_id, cmd>>

\* the subscriptions, video_purchases and video_downloads tables, and the
\* initiate_download requests in flight
access_vars == <<subscriptions, video_purchases, video_downloads, download_requests>>

\* the live_streams, live_stream_tickets and live_stream_viewers tables, and
\* the join_stream and leave_stream requests in flight
stream_vars == <<live_streams, tickets, stream_viewers, stream_requests>>

\* the video_likes table
like_vars == <<video_likes>>

\* the video_recommendations table and the index requests served
rec_vars == <<recommendations, index_requests>>

\* the follows table and the follow_channel requests in flight
follow_vars == <<follows, follow_requests>>

\* the tables written by the views of the site
site_vars == <<access_vars, stream_vars, like_vars, rec_vars, follow_vars>>

vars == <<users, earnings, payouts, next_user_id, next_earning_id, next_payout_id, cmd,
          rates, next_rate_id, videos, video_views, next_view_id, requests, run_start,
          site_vars>>

\* the tables of the site before any row is written
InitSite ==
    /\ subscriptions = {}
    /\ video_purchases = {}
    /\ video_downloads = <<>>
    /\ download_requests = <<>>
    /\ live_streams = <<>>
    /\ tickets = {}
    /\ stream_viewers = <<>>
    /\ stream_requests = <<>>
    /\ video_likes = {}
    /\ recommendations = <<>>
    /\ index_requests = <<>>
    /\ follows = <<>>
    /\ follow_requests = <<>>

(* ------------------------------ bounds -------------------------------- *)

\* rows ever inserted into the users, earnings_records and payout_requests
\* tables together, over all runs of the command and all admin requests
MaxRows == 4

(* ------------------------- program constants -------------------------- *)

USD(n) == n * 10000

\* seed_payout_requests: total_earnings__gte=50
EligibleEarnings == 500000
\* seed_payout_requests: random.uniform(50, min(total_earnings, 1000))
MinPayout == 500000
MaxPayout == 10000000

STATUS_CHOICES == {"pending", "processing", "completed", "rejected"}

PAYMENT_METHOD_CHOICES == {"mpesa", "paypal", "bank_transfer"}

EARNINGS_TYPE_CHOICES ==
    {"video_view", "video_purchase", "live_stream", "video_call", "subscription", "bonus"}

\* a null foreign key
NULL == 0

(* ------------------------------ helpers ------------------------------- *)

Min(a, b) == IF a <= b THEN a ELSE b

\* rows of table t with the rows of S removed (QuerySet.delete)
Without(t, S) == [i \in DOMAIN t \ S |-> t[i]]

\* table t with row r inserted under primary key i (objects.create)
Insert(t, i, r) == [j \in DOMAIN t \cup {i} |-> IF j = i THEN r ELSE t[j]]

\* creator.earnings and creator.payout_requests, the reverse relations
EarningsOf(c) == {e \in DOMAIN earnings : earnings[e].creator = c}

PayoutsOf(c) == {p \in DOMAIN payouts : payouts[p].creator = c}

\* rows inserted so far: every table hands out primary keys 1, 2, ... and
\* never reuses one
Rows == (next_user_id - 1) + (next_earning_id - 1) + (next_payout_id - 1)

\* a staff user exists, so the admin console can be used
AdminLoggedIn == \E u \in DOMAIN users : users[u].is_superuser

(* ------------------------------- Init --------------------------------- *)

Init ==
    /\ users = <<>>
    /\ earnings = <<>>
    /\ payouts = <<>>
    /\ next_user_id = 1
    /\ next_earning_id = 1
    /\ next_payout_id = 1
    /\ cmd = [pc |-> "idle", creators |-> <<>>]
    /\ rates = <<>>
    /\ next_rate_id = 1
    /\ videos = <<>>
    /\ video_views = <<>>
    /\ next_view_id = 1
    /\ requests = <<>>
    /\ run_start = [next_earning_id |-> 1, next_payout_id |-> 1]
    /\ InitSite

(* ------------------- seed_data management command --------------------- *)

\* samples of Decimal(random.uniform(0, 5000)) and Decimal(random.uniform(0, 1000))
TotalEarningsSamples == {USD(20), USD(100)}
WalletBalanceSamples == {USD(100)}

\* samples of Decimal(random.uniform(50, min(total_earnings, 1000)))
PayoutAmountSamples == {USD(60)}

\* the rows seed_videos and seed_live_streams have left for random.choice
PublishedVideos == {1}
LiveStreams == {1}

\* clear_data: every model of models_to_clear emptied, then the users that
\* are not superusers deleted
clear_data ==
    /\ payouts' = <<>>
    /\ earnings' = <<>>
    /\ users' = Without(users, {u \in DOMAIN users : ~users[u].is_superuser})

\* handle: the optional clear, then the seeders in order of dependencies
handle(clear) ==
    /\ cmd.pc = "idle"
    /\ IF clear THEN clear_data ELSE UNCHANGED <<users, earnings, payouts>>
    /\ cmd' = [pc |-> "seed_users_admin", creators |-> <<>>]
    /\ UNCHANGED <<next_user_id, next_earning_id, next_payout_id>>

\* the row create_superuser('admin', ...) inserts: the money fields keep
\* their default of 0, mpesa_number and paypal_email their blank default
AdminUser ==
    [username |-> "admin", is_superuser |-> TRUE, is_creator |-> TRUE,
     total_earnings |-> 0, wallet_balance |-> 0,
     mpesa_number |-> "", paypal_email |-> "",
     channel_name |-> "", total_views |-> 0, total_followers |-> 0]

\* a sample of random.randint(0, 100000), the total_views of a seeded creator
TotalViewsSample == 500

\* a sample of random.randint(10, 50000), the total_followers of a seeded
\* creator
TotalFollowersSample == 10

\* the row create_user(...) inserts in the loop of seed_users
SeededUser(is_creator, wallet_balance, total_earnings) ==
    [username |-> "user", is_superuser |-> FALSE, is_creator |-> is_creator,
     total_earnings |-> IF is_creator THEN total_earnings ELSE 0,
     wallet_balance |-> IF is_creator THEN wallet_balance ELSE 0,
     mpesa_number |-> IF is_creator THEN "+254" ELSE "",
     paypal_email |-> "",
     channel_name |-> IF is_creator THEN "seeded" ELSE "",
     total_views |-> IF is_creator THEN TotalViewsSample ELSE 0,
     total_followers |-> IF is_creator THEN TotalFollowersSample ELSE 0]

\* seed_users, first part: the admin user, unless one exists
seed_users_admin ==
    /\ cmd.pc = "seed_users_admin"
    /\ IF \E u \in DOMAIN users : users[u].username = "admin"
       THEN UNCHANGED <<users, next_user_id>>
       ELSE /\ users' = Insert(users, next_user_id, AdminUser)
            /\ next_user_id' = next_user_id + 1
    /\ cmd' = [cmd EXCEPT !.pc = "seed_users"]
    /\ UNCHANGED <<earnings, payouts, next_earning_id, next_payout_id>>

\* seed_users, one iteration of the loop over range(count)
seed_users(is_creator, wallet_balance, total_earnings) ==
    /\ cmd.pc = "seed_users"
    /\ Rows < MaxRows
    /\ users' = Insert(users, next_user_id,
                       SeededUser(is_creator, wallet_balance, total_earnings))
    /\ next_user_id' = next_user_id + 1
    /\ UNCHANGED <<earnings, payouts, next_earning_id, next_payout_id, cmd>>

\* the fields of a User instance that the later seeders read
Instance(u) ==
    [total_earnings |-> users[u].total_earnings,
     mpesa_number |-> users[u].mpesa_number,
     paypal_email |-> users[u].paypal_email]

\* seed_earnings, its first line: creators = list(filter(is_creator=True))
seed_earnings_begin ==
    /\ cmd.pc = "seed_users"
    /\ cmd' = [pc |-> "seed_earnings",
               creators |-> [u \in {v \in DOMAIN users : users[v].is_creator}
                                |-> Instance(u)]]
    /\ UNCHANGED <<users, earnings, payouts, next_user_id, next_earning_id, next_payout_id>>

\* the amount seed_earnings draws for an earnings_type, one sample of each
\* random.uniform range; 'video_call' is never drawn and keeps Decimal('0.0000')
SeedAmount(earnings_type) ==
    CASE earnings_type = "video_view"     -> 57
      [] earnings_type = "video_purchase" -> USD(5)
      [] earnings_type = "live_stream"    -> USD(80)
      [] earnings_type = "subscription"   -> USD(10)
      [] earnings_type = "bonus"          -> USD(20)
      [] OTHER                            -> 0

\* the content row seed_earnings attaches for an earnings_type
SeedVideo(earnings_type) ==
    IF earnings_type \in {"video_view", "video_purchase"} /\ PublishedVideos # {}
    THEN CHOOSE v \in PublishedVideos : TRUE ELSE NULL

SeedLiveStream(earnings_type) ==
    IF earnings_type = "live_stream" /\ LiveStreams # {}
    THEN CHOOSE s \in LiveStreams : TRUE ELSE NULL

\* the earnings types the seed steps draw: two of the five of the
\* random.choice list, one that refers to a video and one to a live stream
SeedEarningsTypeSamples == {"video_view", "live_stream"}

\* seed_earnings, one iteration of the inner loop: EarningsRecord.objects.create
seed_earnings(c, earnings_type) ==
    /\ cmd.pc = "seed_earnings"
    /\ c \in DOMAIN cmd.creators
    /\ c \in DOMAIN users
    /\ Rows < MaxRows
    /\ earnings' = Insert(earnings, next_earning_id,
           [creator |-> c, earnings_type |-> earnings_type,
            amount |-> SeedAmount(earnings_type), currency |-> "USD",
            video |-> SeedVideo(earnings_type),
            live_stream |-> SeedLiveStream(earnings_type),
            video_call |-> NULL])
    /\ next_earning_id' = next_earning_id + 1
    /\ UNCHANGED <<users, payouts, next_user_id, next_payout_id, cmd>>

\* seed_payout_requests, its first line: the creators with total_earnings >= 50
seed_payout_requests_begin ==
    /\ cmd.pc = "seed_earnings"
    /\ cmd' = [pc |-> "seed_payout_requests",
               creators |-> [u \in {v \in DOMAIN users :
                                      /\ users[v].is_creator
                                      /\ users[v].total_earnings >= EligibleEarnings}
                                |-> Instance(u)]]
    /\ UNCHANGED <<users, earnings, payouts, next_user_id, next_earning_id, next_payout_id>>

\* the payout_data dict of seed_payout_requests for a creator instance
PayoutData(c, inst, amount, payment_method, status) ==
    [creator |-> c, amount |-> amount, payment_method |-> payment_method,
     mpesa_number |-> IF payment_method = "mpesa" THEN inst.mpesa_number ELSE "",
     paypal_email |-> IF payment_method = "paypal"
                      THEN (IF inst.paypal_email # "" THEN inst.paypal_email
                            ELSE "user@example.com")
                      ELSE "",
     bank_account |-> "",
     status |-> status, transaction_id |-> "txn",
     rejection_reason |-> "", processed_at |-> "NULL"]

\* the status values of the random.choice list of seed_payout_requests
SeedStatuses == {"pending", "processing", "completed"}

\* seed_payout_requests, one iteration of the inner loop: PayoutRequest.objects.create
seed_payout_requests(c, amount, payment_method, status) ==
    /\ cmd.pc = "seed_payout_requests"
    /\ c \in DOMAIN cmd.creators
    /\ c \in DOMAIN users
    /\ Rows < MaxRows
    /\ MinPayout <= amount
    /\ amount <= Min(cmd.creators[c].total_earnings, MaxPayout)
    /\ payouts' = Insert(payouts, next_payout_id,
                         PayoutData(c, cmd.creators[c], amount, payment_method, status))
    /\ next_payout_id' = next_payout_id + 1
    /\ UNCHANGED <<users, earnings, next_user_id, next_earning_id, cmd>>

\* a create for a creator whose row is gone fails its foreign key: the
\* IntegrityError ends the command
seed_integrity_error(c) ==
    /\ cmd.pc \in {"seed_earnings", "seed_payout_requests"}
    /\ c \in DOMAIN cmd.creators
    /\ c \notin DOMAIN users
    /\ cmd' = [pc |-> "idle", creators |-> <<>>]
    /\ UNCHANGED <<users, earnings, payouts, next_user_id, next_earning_id, next_payout_id>>

\* handle returns after seed_payout_requests and print_summary
seed_done ==
    /\ cmd.pc = "seed_payout_requests"
    /\ cmd' = [pc |-> "idle", creators |-> <<>>]
    /\ UNCHANGED <<users, earnings, payouts, next_user_id, next_earning_id, next_payout_id>>

(* ---------------------------- admin console --------------------------- *)

\* admin action 'Process payouts': queryset.update(status='processing')
process_payouts(queryset) ==
    /\ AdminLoggedIn
    /\ queryset # {}
    /\ queryset \subseteq DOMAIN payouts
    /\ payouts' = [p \in DOMAIN payouts |->
                     IF p \in queryset
                     THEN [payouts[p] EXCEPT !.status = "processing"]
                     ELSE payouts[p]]
    /\ UNCHANGED <<users, earnings, next_user_id, next_earning_id, next_payout_id, cmd>>

\* change forms an operator submits: one per status, with the transaction
\* id filled in and a reason given when rejecting
PayoutChangeForms ==
    {[status |-> s, transaction_id |-> "txn",
      rejection_reason |-> IF s = "rejected" THEN "reason" ELSE ""] : s \in STATUS_CHOICES}

\* PayoutRequestAdmin change view, fieldset 'Processing': status,
\* transaction_id and rejection_reason are plain editable fields; payout_id,
\* requested_at and processed_at are readonly_fields and keep their values
PayoutRequestAdmin_change(p, status, transaction_id, rejection_reason) ==
    /\ AdminLoggedIn
    /\ p \in DOMAIN payouts
    /\ status \in STATUS_CHOICES
    /\ payouts' = [payouts EXCEPT ![p] =
                     [@ EXCEPT !.status = status,
                               !.transaction_id = transaction_id,
                               !.rejection_reason = rejection_reason]]
    /\ UNCHANGED <<users, earnings, next_user_id, next_earning_id, next_payout_id, cmd>>

\* amounts an operator types into the amount field of an earnings record:
\* a DecimalField with no validators takes any decimal
AdminEarningAmounts == {USD(-5)}

\* EarningsRecordAdmin add view: every field but created_at is editable
EarningsRecordAdmin_add(c, earnings_type, amount) ==
    /\ AdminLoggedIn
    /\ c \in DOMAIN users
    /\ earnings_type \in EARNINGS_TYPE_CHOICES
    /\ Rows < MaxRows
    /\ earnings' = Insert(earnings, next_earning_id,
           [creator |-> c, earnings_type |-> earnings_type,
            amount |-> amount, currency |-> "USD",
            video |-> NULL, live_stream |-> NULL, video_call |-> NULL])
    /\ next_earning_id' = next_earning_id + 1
    /\ UNCHANGED <<users, payouts, next_user_id, next_payout_id, cmd>>

\* EarningsRecordAdmin change view saving a new amount
EarningsRecordAdmin_change(e, amount) ==
    /\ AdminLoggedIn
    /\ e \in DOMAIN earnings
    /\ earnings' = [earnings EXCEPT ![e].amount = amount]
    /\ UNCHANGED <<users, payouts, next_user_id, next_earning_id, next_payout_id, cmd>>

\* EarningsRecordAdmin delete view
EarningsRecordAdmin_delete(e) ==
    /\ AdminLoggedIn
    /\ e \in DOMAIN earnings
    /\ earnings' = Without(earnings, {e})
    /\ UNCHANGED <<users, payouts, next_user_id, next_earning_id, next_payout_id, cmd>>

\* UserAdmin delete view of a user that is not a superuser: the creator
\* foreign keys of EarningsRecord and PayoutRequest are on_delete=CASCADE
UserAdmin_delete(u) ==
    /\ AdminLoggedIn
    /\ u \in DOMAIN users
    /\ ~users[u].is_superuser
    /\ users' = Without(users, {u})
    /\ earnings' = Without(earnings, EarningsOf(u))
    /\ payouts' = Without(payouts, PayoutsOf(u))
    /\ UNCHANGED <<next_user_id, next_earning_id, next_payout_id, cmd>>

(* -------------------------------- views ------------------------------- *)

\* channel_edit as it would be if it saved a newly built User row instead
\* of the loaded one: the money fields fall back to their default of 0
channel_edit_saves_new_row(u, channel_name) ==
    /\ u \in DOMAIN users
    /\ users[u].is_creator
    /\ users' = [users EXCEPT ![u] =
                   [@ EXCEPT !.channel_name = IF channel_name # "" THEN channel_name ELSE @,
                             !.total_earnings = 0,
                             !.wallet_balance = 0]]
    /\ UNCHANGED <<earnings, payouts, next_user_id, next_earning_id, next_payout_id, cmd>>

\* channel_edit, POST by the creator u: channel_name is replaced when the
\* stripped value is not empty; creator.save() writes the row back with
\* every field that is no form field as it was loaded (bio, country and
\* profile_picture, which are no part of the state here, are set likewise)
channel_edit(u, channel_name) ==
    /\ u \in DOMAIN users
    /\ users[u].is_creator
    /\ users' = [users EXCEPT ![u] =
                   [@ EXCEPT !.channel_name = IF channel_name # "" THEN channel_name ELSE @]]
    /\ UNCHANGED <<earnings, payouts, next_user_id, next_earning_id, next_payout_id, cmd>>

ChannelNameSamples == {"", "edited"}

(* -------------------------------- Next -------------------------------- *)

Next ==
    \/ /\ \E clear \in BOOLEAN : handle(clear)
       /\ UNCHANGED <<rate_vars, view_vars, run_start, site_vars>>
    \/ /\ seed_users_admin
       /\ UNCHANGED <<rate_vars, view_vars, run_start, site_vars>>
    \/ /\ \E is_creator \in BOOLEAN, w \in WalletBalanceSamples, t \in TotalEarningsSamples :
             seed_users(is_creator, w, t)
       /\ UNCHANGED <<rate_vars, view_vars, run_start, site_vars>>
    \/ /\ seed_earnings_begin
       /\ UNCHANGED <<rate_vars, view_vars, run_start, site_vars>>
    \/ /\ \E c \in DOMAIN cmd.creators, ty \in SeedEarningsTypeSamples : seed_earnings(c, ty)
       /\ UNCHANGED <<rate_vars, view_vars, run_start, site_vars>>
    \/ /\ seed_payout_requests_begin
       /\ UNCHANGED <<rate_vars, view_vars, run_start, site_vars>>
    \/ /\ \E c \in DOMAIN cmd.creators, a \in PayoutAmountSamples,
             m \in PAYMENT_METHOD_CHOICES, st \in SeedStatuses :
             seed_payout_requests(c, a, m, st)
       /\ UNCHANGED <<rate_vars, view_vars, run_start, site_vars>>
    \/ /\ \E c \in DOMAIN cmd.creators : seed_integrity_error(c)
       /\ UNCHANGED <<rate_vars, view_vars, run_start, site_vars>>
    \/ /\ seed_done
       /\ UNCHANGED <<rate_vars, view_vars, run_start, site_vars>>
    \/ /\ \E q \in SUBSET DOMAIN payouts : process_payouts(q)
       /\ UNCHANGED <<rate_vars, view_vars, run_start, site_vars>>
    \/ /\ \E p \in DOMAIN payouts, f \in PayoutChangeForms :
             PayoutRequestAdmin_change(p, f.status, f.transaction_id, f.rejection_reason)
       /\ UNCHANGED <<rate_vars, view_vars, run_start, site_vars>>
    \/ /\ \E c \in DOMAIN users, a \in AdminEarningAmounts :
             EarningsRecordAdmin_add(c, "bonus", a)
       /\ UNCHANGED <<rate_vars, view_vars, run_start, site_vars>>
    \/ /\ \E e \in DOMAIN earnings, a \in AdminEarningAmounts : EarningsRecordAdmin_change(e, a)
       /\ UNCHANGED <<rate_vars, view_vars, run_start, site_vars>>
    \/ /\ \E e \in DOMAIN earnings : EarningsRecordAdmin_delete(e)
       /\ UNCHANGED <<rate_vars, view_vars, run_start, site_vars>>
    \/ /\ \E u \in DOMAIN users : UserAdmin_delete(u)
       /\ UNCHANGED <<rate_vars, view_vars, run_start, site_vars>>
    \/ /\ \E u \in DOMAIN users, n \in ChannelNameSamples : channel_edit(u, n)
       /\ UNCHANGED <<rate_vars, view_vars, run_start, site_vars>>

Spec == Init /\ [][Next]_vars

(* ======================= properties of the ledger ===================== *)

\* the edges of the payout lifecycle (spec 4.4)
PayoutEdges ==
    {<<"pending", "processing">>, <<"processing", "completed">>,
     <<"pending", "rejected">>, <<"processing", "rejected">>}

RECURSIVE SumAmount(_, _)
\* the sum of the amount column over the rows S of table t
SumAmount(t, S) ==
    IF S = {} THEN 0
    ELSE LET i == CHOOSE j \in S : TRUE
         IN t[i].amount + SumAmount(t, S \ {i})

\* the payout requests that hold or have spent balance (spec 3, Balance)
Reserved(c) == {p \in PayoutsOf(c) : payouts[p].status \in {"pending", "processing", "completed"}}

\* sum of the creator's earnings entries (spec 3, Balance)
LedgerTotal(c) == SumAmount(earnings, EarningsOf(c))

\* available balance (spec 3): ledger total minus the creator's payout
\* requests in pending, processing or completed
AvailableBalance(c) == LedgerTotal(c) - SumAmount(payouts, Reserved(c))

\* C1: a payout request's status changes only along pending->processing,
\* processing->completed, pending->rejected and processing->rejected; no
\* step changes the status of a request in any other way.
C1_StatusFollowsEdges ==
    [][\A p \in DOMAIN payouts \cap DOMAIN payouts' :
          payouts'[p].status # payouts[p].status
             => <<payouts[p].status, payouts'[p].status>> \in PayoutEdges]_vars

\* C2: a payout request is created only with an amount that does not
\* exceed the creator's available balance at that moment.
C2_CreatedWithinAvailableBalance ==
    [][\A p \in DOMAIN payouts' \ DOMAIN payouts :
          payouts'[p].amount <= AvailableBalance(payouts'[p].creator)]_vars

\* C3: two requests of one creator whose combined amount exceeds the
\* creator's balance are never both admitted: a step that admits a request
\* leaves no other admitted request of the creator with which it adds up to
\* more than the creator's ledger total.
C3_NoTwoAdmittedPastBalance ==
    [][\A q \in DOMAIN payouts' \ DOMAIN payouts :
          \A p \in Reserved(payouts'[q].creator) :
             payouts[p].amount + payouts'[q].amount <= LedgerTotal(payouts'[q].creator)]_vars

\* C4: for every creator, wallet_balance plus the amounts of the creator's
\* payout requests in pending, processing or completed equals total_earnings.
C4_WalletPlusReservedIsTotal ==
    \A c \in DOMAIN users :
       users[c].is_creator =>
          users[c].wallet_balance + SumAmount(payouts, Reserved(c)) = users[c].total_earnings

\* C5: the cached total_earnings of every user equals the sum of the
\* amounts of the user's earnings records (so it is never ahead of it).
C5_CacheIsLedgerSum ==
    \A u \in DOMAIN users : users[u].total_earnings = LedgerTotal(u)

\* C6: an earnings entry, once created, is in every later state still
\* present with the same creator, type, amount and currency.
C6_EntriesImmutable ==
    [][\A e \in DOMAIN earnings :
          /\ e \in DOMAIN earnings'
          /\ earnings'[e].creator = earnings[e].creator
          /\ earnings'[e].earnings_type = earnings[e].earnings_type
          /\ earnings'[e].amount = earnings[e].amount
          /\ earnings'[e].currency = earnings[e].currency]_vars

\* C7: every earnings entry of the ledger has amount >= 0.
C7_AmountsNonNegative ==
    \A e \in DOMAIN earnings : earnings[e].amount >= 0

Populated(r) ==
    {f \in {"mpesa_number", "paypal_email", "bank_account"} : r[f] # ""}

\* the detail field a payment method requires
RequiredField(payment_method) ==
    CASE payment_method = "mpesa"  -> "mpesa_number"
      [] payment_method = "paypal" -> "paypal_email"
      [] OTHER                     -> "bank_account"

\* C9: every payout request has exactly one of mpesa_number, paypal_email
\* and bank_account populated, the one its payment_method requires.
C9_DetailsMatchMethod ==
    \A p \in DOMAIN payouts :
       Populated(payouts[p]) = {RequiredField(payouts[p].payment_method)}

\* C10: every payout request whose status is completed has a non-empty
\* transaction_id and a non-null processed_at.
C10_CompletedIsRecorded ==
    \A p \in DOMAIN payouts :
       payouts[p].status = "completed"
          => payouts[p].transaction_id # "" /\ payouts[p].processed_at # "NULL"

(* ================== properties of the payout operations =============== *)

\* C11: moving a request to processing is idempotent: the 'Process payouts'
\* action changes no field of a selected request that is already
\* processing, takes a selected pending request to the same row whether it
\* is applied once or again (only the status differs, and it is
\* processing), and fails on a selected completed or rejected request,
\* which it leaves untouched.
C11_BeginProcessingIdempotent ==
    [][\A q \in SUBSET DOMAIN payouts :
          process_payouts(q) =>
             \A p \in q :
                /\ payouts[p].status = "pending"
                      => payouts'[p] = [payouts[p] EXCEPT !.status = "processing"]
                /\ payouts[p].status \in {"processing", "completed", "rejected"}
                      => payouts'[p] = payouts[p]]_vars

\* C12: a step that takes a pending or processing request to rejected
\* records a rejection_reason and a processed_at, raises the available
\* balance of the request's creator by exactly the request's amount, and
\* changes the available balance of no other user.
C12_RejectRecordsAndReleases ==
    [][\A p \in DOMAIN payouts \cap DOMAIN payouts' :
          (payouts[p].status \in {"pending", "processing"} /\ payouts'[p].status = "rejected")
             => /\ payouts'[p].rejection_reason # ""
                /\ payouts'[p].processed_at # "NULL"
                /\ \A c \in DOMAIN users \cap DOMAIN users' :
                      AvailableBalance(c)' =
                         AvailableBalance(c)
                            + (IF c = payouts[p].creator THEN payouts[p].amount ELSE 0)]_vars

\* the steps of the one run of the seed_data command: a started process
\* runs on to its end
CommandStep ==
    /\ \/ seed_users_admin
       \/ seed_earnings_begin
       \/ seed_payout_requests_begin
       \/ \E c \in DOMAIN cmd.creators : seed_integrity_error(c)
       \/ seed_done
    /\ UNCHANGED <<rate_vars, view_vars, run_start, site_vars>>

\* the requests of the operator that write payout requests
OperatorStep ==
    /\ \/ \E q \in SUBSET DOMAIN payouts : process_payouts(q)
       \/ \E p \in DOMAIN payouts, f \in PayoutChangeForms :
             PayoutRequestAdmin_change(p, f.status, f.transaction_id, f.rejection_reason)
    /\ UNCHANGED <<rate_vars, view_vars, run_start, site_vars>>

\* the program with a command that runs to its end and an operator who
\* keeps working on the payout requests
FairSpec == Spec /\ WF_vars(CommandStep) /\ WF_vars(OperatorStep)

\* C13: every payout request that is in processing is later completed or
\* rejected (or gone with its creator): none stays in processing forever.
C13_ProcessingTerminates ==
    \A p \in 1..MaxRows :
       (p \in DOMAIN payouts /\ payouts[p].status = "processing")
          ~> (p \notin DOMAIN payouts \/ payouts[p].status \in {"completed", "rejected"})

(* ========================== the rate table ============================ *)

\* rows ever inserted into the monetization_rates table
MaxRateRows == 3

\* instants are 0 .. MaxTime
MaxTime == 2

Times == 0..MaxTime

\* effective_until is null: the window is open
NoTime == -1

RATE_TYPE_CHOICES == {"base_cpm", "engagement_bonus", "premium_rate", "platform_fee"}

\* the rate types the steps below draw: two of the four
RateTypeSamples == {"base_cpm", "platform_fee"}

\* the value of a rate type in rates_data of seed_monetization_rates
SeedRateValue(rate_type) ==
    CASE rate_type = "base_cpm"         -> USD(1)
      [] rate_type = "engagement_bonus" -> 5000
      [] rate_type = "premium_rate"     -> USD(2)
      [] OTHER                          -> USD(20)

\* the database as seed_users_admin leaves it: the superuser exists, every
\* other table is empty; the steps of seed_data on the rate table below
\* stand for any later run of the command
InitRates ==
    /\ users = Insert(<<>>, 1, AdminUser)
    /\ next_user_id = 2
    /\ earnings = <<>>
    /\ payouts = <<>>
    /\ next_earning_id = 1
    /\ next_payout_id = 1
    /\ cmd = [pc |-> "idle", creators |-> <<>>]
    /\ rates = <<>>
    /\ next_rate_id = 1
    /\ videos = <<>>
    /\ video_views = <<>>
    /\ next_view_id = 1
    /\ requests = <<>>
    /\ run_start = [next_earning_id |-> 1, next_payout_id |-> 1]
    /\ InitSite

\* rate_type as it would be without unique=True: every value is accepted
RateTypeFree_not_unique(rate_type, except) == TRUE

\* rate_type is unique=True: a row may take a rate_type only when no other
\* row (but the row 'except' that is being saved) has it
RateTypeFree(rate_type, except) ==
    \A r \in DOMAIN rates \ {except} : rates[r].rate_type # rate_type

\* seed_monetization_rates, one iteration of its loop:
\* get_or_create(rate_type=..., defaults=rate_data); is_active and
\* effective_until keep their defaults
seed_monetization_rates(rate_type, effective_from) ==
    /\ IF \E r \in DOMAIN rates : rates[r].rate_type = rate_type
       THEN UNCHANGED rate_vars
       ELSE /\ next_rate_id <= MaxRateRows
            /\ rates' = Insert(rates, next_rate_id,
                   [rate_type |-> rate_type, value |-> SeedRateValue(rate_type),
                    is_active |-> TRUE, effective_from |-> effective_from,
                    effective_until |-> NoTime])
            /\ next_rate_id' = next_rate_id + 1
    /\ UNCHANGED <<users, earnings, payouts, next_user_id, next_earning_id, next_payout_id, cmd>>

\* clear_data, the MonetizationRate iteration of its loop
clear_data_rates ==
    /\ rates # <<>>
    /\ rates' = <<>>
    /\ UNCHANGED <<next_rate_id, users, earnings, payouts,
                   next_user_id, next_earning_id, next_payout_id, cmd>>

\* forms an operator submits for a rate: a new value, any window, active or not
AdminRateValues == {USD(2)}

RateForms ==
    [value : AdminRateValues, is_active : BOOLEAN,
     effective_from : Times, effective_until : Times \cup {NoTime}]

\* MonetizationRateAdmin add view: every field but created_at and
\* updated_at is a form field; the form is refused when rate_type is taken
MonetizationRateAdmin_add(rate_type, f) ==
    /\ AdminLoggedIn
    /\ rate_type \in RATE_TYPE_CHOICES
    /\ RateTypeFree(rate_type, NULL)
    /\ next_rate_id <= MaxRateRows
    /\ rates' = Insert(rates, next_rate_id,
           [rate_type |-> rate_type, value |-> f.value, is_active |-> f.is_active,
            effective_from |-> f.effective_from, effective_until |-> f.effective_until])
    /\ next_rate_id' = next_rate_id + 1
    /\ UNCHANGED <<users, earnings, payouts, next_user_id, next_earning_id, next_payout_id, cmd>>

\* MonetizationRateAdmin change view: the row is saved in place
MonetizationRateAdmin_change(r, rate_type, f) ==
    /\ AdminLoggedIn
    /\ r \in DOMAIN rates
    /\ rate_type \in RATE_TYPE_CHOICES
    /\ RateTypeFree(rate_type, r)
    /\ rates' = [rates EXCEPT ![r] =
           [rate_type |-> rate_type, value |-> f.value, is_active |-> f.is_active,
            effective_from |-> f.effective_from, effective_until |-> f.effective_until]]
    /\ UNCHANGED <<next_rate_id, users, earnings, payouts,
                   next_user_id, next_earning_id, next_payout_id, cmd>>

\* MonetizationRateAdmin delete view
MonetizationRateAdmin_delete(r) ==
    /\ AdminLoggedIn
    /\ r \in DOMAIN rates
    /\ rates' = Without(rates, {r})
    /\ UNCHANGED <<next_rate_id, users, earnings, payouts,
                   next_user_id, next_earning_id, next_payout_id, cmd>>

NextRates ==
    \/ /\ \E ty \in RateTypeSamples, t \in Times : seed_monetization_rates(ty, t)
       /\ UNCHANGED <<view_vars, run_start, site_vars>>
    \/ /\ clear_data_rates
       /\ UNCHANGED <<view_vars, run_start, site_vars>>
    \/ /\ \E ty \in RateTypeSamples, f \in RateForms : MonetizationRateAdmin_add(ty, f)
       /\ UNCHANGED <<view_vars, run_start, site_vars>>
    \/ /\ \E r \in DOMAIN rates, f \in RateForms :
             MonetizationRateAdmin_change(r, rates[r].rate_type, f)
       /\ UNCHANGED <<view_vars, run_start, site_vars>>
    \/ /\ \E r \in DOMAIN rates : MonetizationRateAdmin_delete(r)
       /\ UNCHANGED <<view_vars, run_start, site_vars>>

SpecRates == InitRates /\ [][NextRates]_vars

(* -------------------- properties of the rate table -------------------- *)

\* the effective window of row r contains the instant t
InWindow(r, t) ==
    /\ rates[r].effective_from <= t
    /\ rates[r].effective_until = NoTime \/ t < rates[r].effective_until

\* the rates of a type whose effective window contains t
RatesAt(rate_type, t) ==
    {r \in DOMAIN rates : rates[r].rate_type = rate_type /\ InWindow(r, t)}

\* get_active_rate(rate_type, t) of spec 4.1: the rates in force at t
ActiveAt(rate_type, t) == {r \in RatesAt(rate_type, t) : rates[r].is_active}

\* the open rates of a type: those with no effective_until
OpenRates(rate_type) ==
    {r \in DOMAIN rates : rates[r].rate_type = rate_type /\ rates[r].effective_until = NoTime}

\* C14: for every rate type and every instant, at most one rate of the type
\* has an effective window that contains the instant (so no two rates of a
\* type overlap, and at most one is active).
C14_AtMostOneRatePerInstant ==
    \A ty \in RATE_TYPE_CHOICES, t \in Times : Cardinality(RatesAt(ty, t)) <= 1

\* C14 witness: rates of two types are in force at one instant, one of them
\* with a value and a window an operator has set, after a rate row before
\* them has been deleted.
C14_Witness ==
    \E r1, r2 \in DOMAIN rates, t \in Times :
       /\ r1 # r2
       /\ InWindow(r1, t) /\ InWindow(r2, t)
       /\ rates[r1].rate_type = "base_cpm"
       /\ rates[r1].value \in AdminRateValues
       /\ rates[r1].effective_from > 0
       /\ Cardinality(DOMAIN rates) < next_rate_id - 1

\* C15: for every rate type that has rates, the lookup of the active rate at
\* any instant at or after the type's first effective_from finds exactly one
\* rate.
C15_ExactlyOneActiveRate ==
    \A ty \in RATE_TYPE_CHOICES, t \in Times :
       (\E r \in DOMAIN rates : rates[r].rate_type = ty /\ rates[r].effective_from <= t)
          => Cardinality(ActiveAt(ty, t)) = 1

\* C16: superseding keeps history and never leaves a type without an open
\* rate: no step removes a rate row or changes its rate_type, value or
\* effective_from; a step changes effective_until only to close an open row,
\* and then a new row of the same type starts at that instant; a type that
\* has exactly one open rate has exactly one after every step.
C16_SupersedeKeepsHistory ==
    [][/\ \A r \in DOMAIN rates :
             /\ r \in DOMAIN rates'
             /\ rates'[r].rate_type = rates[r].rate_type
             /\ rates'[r].value = rates[r].value
             /\ rates'[r].effective_from = rates[r].effective_from
             /\ rates'[r].effective_until # rates[r].effective_until
                   => /\ rates[r].effective_until = NoTime
                      /\ \E n \in DOMAIN rates' \ DOMAIN rates :
                            /\ rates'[n].rate_type = rates[r].rate_type
                            /\ rates'[n].effective_from = rates'[r].effective_until
                            /\ rates'[n].effective_until = NoTime
       /\ \A ty \in RATE_TYPE_CHOICES :
             Cardinality(OpenRates(ty)) = 1 => Cardinality(OpenRates(ty)') = 1]_vars

(* ========================== view tracking ============================= *)

\* video_detail requests ever started
MaxRequests == 2

\* rows ever inserted into the video_views table
MaxViews == 3

\* a sample of random.randint(100, 100000), the view_count of a seeded video
ViewCountSample == 100

\* a sample of Decimal(random.uniform(0.001, 0.01)), the earnings_generated
\* of a seeded view
EarningsGeneratedSample == 50

\* the database after a run of seed_data with one creator and two published
\* videos of the creator, one free and one premium; the engagement, the
\* earnings and the payout requests are not seeded yet
InitViews ==
    /\ users = Insert(Insert(<<>>, 1, AdminUser), 2, SeededUser(TRUE, USD(100), USD(100)))
    /\ next_user_id = 3
    /\ earnings = <<>>
    /\ payouts = <<>>
    /\ next_earning_id = 1
    /\ next_payout_id = 1
    /\ cmd = [pc |-> "seed_engagement", creators |-> <<>>]
    /\ rates = Insert(<<>>, 1,
           [rate_type |-> "base_cpm", value |-> SeedRateValue("base_cpm"),
            is_active |-> TRUE, effective_from |-> 0, effective_until |-> NoTime])
    /\ next_rate_id = 2
    /\ videos = Insert(Insert(<<>>, 1,
           [creator |-> 2, video_type |-> "free", status |-> "published",
            view_count |-> ViewCountSample]), 2,
           [creator |-> 2, video_type |-> "premium", status |-> "published",
            view_count |-> ViewCountSample])
    /\ video_views = <<>>
    /\ next_view_id = 1
    /\ requests = <<>>
    /\ run_start = [next_earning_id |-> 1, next_payout_id |-> 1]
    /\ InitSite

\* seed_engagement, one iteration of the loop over the views of a published
\* video: a VideoView flagged is_monetized with a random earnings_generated
seed_engagement(v, user) ==
    /\ cmd.pc = "seed_engagement"
    /\ v \in DOMAIN videos
    /\ videos[v].status = "published"
    /\ user \in DOMAIN users \cup {NULL}
    /\ next_view_id <= MaxViews
    /\ video_views' = Insert(video_views, next_view_id,
           [video |-> v, user |-> user, is_monetized |-> TRUE,
            earnings_generated |-> EarningsGeneratedSample])
    /\ next_view_id' = next_view_id + 1
    /\ UNCHANGED <<videos, requests, users, earnings, payouts,
                   next_user_id, next_earning_id, next_payout_id, cmd>>

\* video_detail, lines 498-513: access to a premium or pay-per-view video
\* needs a login and an active subscription or a completed purchase
has_access(v, user) ==
    IF videos[v].video_type \in {"premium", "pay_per_view"}
    THEN /\ user # NULL
         /\ IF videos[v].video_type = "premium"
            THEN \E sub \in subscriptions :
                    /\ sub.subscriber = user
                    /\ sub.creator = videos[v].creator
                    /\ sub.status = "active"
            ELSE \E pur \in video_purchases :
                    pur.user = user /\ pur.video = v /\ pur.payment_status = "completed"
    ELSE TRUE

\* video_detail up to the call of track_video_view: the published video is
\* loaded together with its creator (select_related); a request without
\* access goes on to render the page
video_detail(user, v) ==
    /\ Len(requests) < MaxRequests
    /\ user \in DOMAIN users \cup {NULL}
    /\ v \in DOMAIN videos
    /\ videos[v].status = "published"
    /\ requests' = Append(requests,
           [pc |-> IF has_access(v, user) THEN "create_view" ELSE "render",
            has_access |-> has_access(v, user),
            user |-> user, video_id |-> v, video |-> videos[v],
            creator |-> users[videos[v].creator]])
    /\ UNCHANGED <<videos, video_views, next_view_id, users, earnings, payouts,
                   next_user_id, next_earning_id, next_payout_id, cmd>>

\* track_video_view, VideoView.objects.create: is_monetized and
\* earnings_generated keep their defaults
track_video_view_create(r) ==
    /\ r \in DOMAIN requests
    /\ requests[r].pc = "create_view"
    /\ next_view_id <= MaxViews
    /\ video_views' = Insert(video_views, next_view_id,
           [video |-> requests[r].video_id, user |-> requests[r].user,
            is_monetized |-> FALSE, earnings_generated |-> 0])
    /\ next_view_id' = next_view_id + 1
    /\ requests' = [requests EXCEPT ![r].pc = "save_video"]
    /\ UNCHANGED <<videos, users, earnings, payouts,
                   next_user_id, next_earning_id, next_payout_id, cmd>>

\* the counter update as it would be with an F() expression: the database
\* adds one to the value the row has when the statement runs
track_video_view_save_video_atomic(r) ==
    /\ r \in DOMAIN requests
    /\ requests[r].pc = "save_video"
    /\ videos' = [videos EXCEPT ![requests[r].video_id].view_count = @ + 1]
    /\ requests' = [requests EXCEPT ![r].pc = "save_creator",
                                    ![r].video.view_count = @ + 1]
    /\ UNCHANGED <<video_views, next_view_id, users, earnings, payouts,
                   next_user_id, next_earning_id, next_payout_id, cmd>>

\* track_video_view, video.view_count += 1; video.save(): the row is
\* written back from the instance the request loaded
track_video_view_save_video(r) ==
    /\ r \in DOMAIN requests
    /\ requests[r].pc = "save_video"
    /\ videos' = [videos EXCEPT ![requests[r].video_id] =
                    [requests[r].video EXCEPT !.view_count = @ + 1]]
    /\ requests' = [requests EXCEPT ![r].pc = "save_creator",
                                    ![r].video.view_count = @ + 1]
    /\ UNCHANGED <<video_views, next_view_id, users, earnings, payouts,
                   next_user_id, next_earning_id, next_payout_id, cmd>>

\* track_video_view, video.creator.total_views += 1; video.creator.save(),
\* and the return to video_detail
track_video_view_save_creator(r) ==
    /\ r \in DOMAIN requests
    /\ requests[r].pc = "save_creator"
    /\ users' = [users EXCEPT ![requests[r].video.creator] =
                   [requests[r].creator EXCEPT !.total_views = @ + 1]]
    /\ requests' = [requests EXCEPT ![r].pc = "render",
                                    ![r].creator.total_views = @ + 1]
    /\ UNCHANGED <<videos, video_views, next_view_id, earnings, payouts,
                   next_user_id, next_earning_id, next_payout_id, cmd>>

\* video_detail, its last line: the page is rendered
video_detail_render(r) ==
    /\ r \in DOMAIN requests
    /\ requests[r].pc = "render"
    /\ requests' = [requests EXCEPT ![r].pc = "done"]
    /\ UNCHANGED <<videos, video_views, next_view_id, users, earnings, payouts,
                   next_user_id, next_earning_id, next_payout_id, cmd>>

\* the visitors of the steps below: an anonymous one and the user 1
Visitors == {NULL, 1}

NextViews ==
    \/ /\ \E v \in DOMAIN videos : seed_engagement(v, NULL)
       /\ UNCHANGED <<rate_vars, run_start, site_vars>>
    \/ /\ \E u \in Visitors, v \in DOMAIN videos : video_detail(u, v)
       /\ UNCHANGED <<rate_vars, run_start, site_vars>>
    \/ /\ \E r \in DOMAIN requests : track_video_view_create(r)
       /\ UNCHANGED <<rate_vars, run_start, site_vars>>
    \/ /\ \E r \in DOMAIN requests : track_video_view_save_video(r)
       /\ UNCHANGED <<rate_vars, run_start, site_vars>>
    \/ /\ \E r \in DOMAIN requests : track_video_view_save_creator(r)
       /\ UNCHANGED <<rate_vars, run_start, site_vars>>
    \/ /\ \E r \in DOMAIN requests : video_detail_render(r)
       /\ UNCHANGED <<rate_vars, run_start, site_vars>>

SpecViews == InitViews /\ [][NextViews]_vars

(* -------------------- properties of view tracking --------------------- *)

\* the requests that call track_video_view
Tracking(r) == requests[r].has_access

\* the requests for which track_video_view has returned
Tracked == {r \in DOMAIN requests : Tracking(r) /\ requests[r].pc \in {"render", "done"}}

\* the creator's earnings entries of type video_view
VideoViewEntries(c) == {e \in EarningsOf(c) : earnings[e].earnings_type = "video_view"}

\* C18: for every creator, the number of video_view earnings entries is the
\* number of finished runs of track_video_view for the creator's videos:
\* every run adds one entry.
C18_ViewProducesEarning ==
    \A c \in DOMAIN users :
       Cardinality(VideoViewEntries(c))
          = Cardinality({r \in Tracked : requests[r].video.creator = c})

\* C19: with an active base_cpm rate of value r, the video_view entries of a
\* free video sum to n * r / 1000, n the number of views track_video_view
\* has recorded for the video.
C19_CpmFormula ==
    \A v \in DOMAIN videos, b \in ActiveAt("base_cpm", 0) :
       videos[v].video_type = "free"
          => 1000 * SumAmount(earnings, {e \in DOMAIN earnings :
                                           /\ earnings[e].earnings_type = "video_view"
                                           /\ earnings[e].video = v})
                = Cardinality({r \in Tracked : requests[r].video_id = v}) * rates[b].value

\* the requests that have written view_count of video v, and those that
\* have written total_views of creator c
SavedVideo(v) ==
    {r \in DOMAIN requests :
        /\ Tracking(r)
        /\ requests[r].video_id = v
        /\ requests[r].pc \in {"save_creator", "render", "done"}}

SavedCreator(c) ==
    {r \in Tracked : requests[r].video.creator = c}

\* total_views of user c before any request
SeededTotalViews(c) == IF users[c].is_superuser THEN 0 ELSE TotalViewsSample

\* C20: a counter is never ahead of the number of increments written to
\* it, and it is behind (an update is lost) whenever two of the requests
\* that wrote it had read the same value: view_count of a video and
\* total_views of its creator.
C20_ConcurrentUpdatesAreLost ==
    /\ \A v \in DOMAIN videos :
          LET D == SavedVideo(v)
          IN /\ videos[v].view_count <= ViewCountSample + Cardinality(D)
             /\ (\E r1, r2 \in D :
                    r1 # r2 /\ requests[r1].video.view_count = requests[r2].video.view_count)
                   => videos[v].view_count < ViewCountSample + Cardinality(D)
    /\ \A c \in DOMAIN users :
          LET E == SavedCreator(c)
          IN /\ users[c].total_views <= SeededTotalViews(c) + Cardinality(E)
             /\ (\E r1, r2 \in E :
                    r1 # r2 /\ requests[r1].creator.total_views = requests[r2].creator.total_views)
                   => users[c].total_views < SeededTotalViews(c) + Cardinality(E)

\* C20 witness: two requests for the same video have finished, both read
\* the same view_count and the same total_views, two VideoView rows of the
\* video exist, and each of the two counters is up by one.
C20_Witness ==
    \E r1, r2 \in DOMAIN requests :
       /\ r1 # r2
       /\ requests[r1].pc = "done" /\ requests[r2].pc = "done"
       /\ Tracking(r1) /\ Tracking(r2)
       /\ requests[r1].video_id = requests[r2].video_id
       /\ requests[r1].video.view_count = requests[r2].video.view_count
       /\ requests[r1].creator.total_views = requests[r2].creator.total_views
       /\ Cardinality({w \in DOMAIN video_views :
                         video_views[w].video = requests[r1].video_id}) = 2
       /\ videos[requests[r1].video_id].view_count = ViewCountSample + 1
       /\ users[requests[r1].video.creator].total_views = TotalViewsSample + 1

(* ================== a failing run of the seed command ================= *)

\* handle, with the start of the run recorded
handle_recorded(clear) ==
    /\ handle(clear)
    /\ run_start' = [next_earning_id |-> next_earning_id, next_payout_id |-> next_payout_id]

\* the seed_data command and the one admin request that can make it fail:
\* the deletion of a user the command still holds an instance of
NextSeed ==
    \/ /\ \E clear \in BOOLEAN : handle_recorded(clear)
       /\ UNCHANGED <<rate_vars, view_vars, site_vars>>
    \/ /\ seed_users_admin
       /\ UNCHANGED <<rate_vars, view_vars, run_start, site_vars>>
    \/ /\ \E is_creator \in BOOLEAN, w \in WalletBalanceSamples, t \in TotalEarningsSamples :
             seed_users(is_creator, w, t)
       /\ UNCHANGED <<rate_vars, view_vars, run_start, site_vars>>
    \/ /\ seed_earnings_begin
       /\ UNCHANGED <<rate_vars, view_vars, run_start, site_vars>>
    \/ /\ \E c \in DOMAIN cmd.creators, ty \in SeedEarningsTypeSamples : seed_earnings(c, ty)
       /\ UNCHANGED <<rate_vars, view_vars, run_start, site_vars>>
    \/ /\ seed_payout_requests_begin
       /\ UNCHANGED <<rate_vars, view_vars, run_start, site_vars>>
    \/ /\ \E c \in DOMAIN cmd.creators, a \in PayoutAmountSamples,
             m \in PAYMENT_METHOD_CHOICES, st \in SeedStatuses :
             seed_payout_requests(c, a, m, st)
       /\ UNCHANGED <<rate_vars, view_vars, run_start, site_vars>>
    \/ /\ \E c \in DOMAIN cmd.creators : seed_integrity_error(c)
       /\ UNCHANGED <<rate_vars, view_vars, run_start, site_vars>>
    \/ /\ seed_done
       /\ UNCHANGED <<rate_vars, view_vars, run_start, site_vars>>
    \/ /\ \E u \in DOMAIN users : UserAdmin_delete(u)
       /\ UNCHANGED <<rate_vars, view_vars, run_start, site_vars>>

SpecSeed == Init /\ [][NextSeed]_vars

\* C17: an operation that fails leaves no write behind: when the seed
\* command ends with an error, the earnings_records and payout_requests
\* tables hold no row that the failed run has inserted.
C17_FailureLeavesNoWrites ==
    [][(\E c \in DOMAIN cmd.creators : seed_integrity_error(c))
          => /\ \A e \in DOMAIN earnings' : e < run_start.next_earning_id
             /\ \A p \in DOMAIN payouts' : p < run_start.next_payout_id]_vars

(* ============== the content references of earnings entries ============ *)

\* the rows seed_video_calls has left
VideoCalls == {1}

\* the earnings types of the random.choice list of seed_earnings
SeedEarningsTypes == {"video_view", "video_purchase", "live_stream", "subscription", "bonus"}

\* EarningsRecordAdmin add view with the reference fields filled in: video,
\* live_stream and video_call are three independent optional form fields
EarningsRecordAdmin_add_references(c, earnings_type, amount, video, live_stream, video_call) ==
    /\ AdminLoggedIn
    /\ c \in DOMAIN users
    /\ earnings_type \in EARNINGS_TYPE_CHOICES
    /\ video \in PublishedVideos \cup {NULL}
    /\ live_stream \in LiveStreams \cup {NULL}
    /\ video_call \in VideoCalls \cup {NULL}
    /\ Rows < MaxRows
    /\ earnings' = Insert(earnings, next_earning_id,
           [creator |-> c, earnings_type |-> earnings_type,
            amount |-> amount, currency |-> "USD",
            video |-> video, live_stream |-> live_stream, video_call |-> video_call])
    /\ next_earning_id' = next_earning_id + 1
    /\ UNCHANGED <<users, payouts, next_user_id, next_payout_id, cmd>>

\* the operations that create earnings entries: seed_earnings with every
\* earnings type it draws, and the add view of the admin console
NextReferences ==
    \/ /\ \E clear \in BOOLEAN : handle(clear)
       /\ UNCHANGED <<rate_vars, view_vars, run_start, site_vars>>
    \/ /\ seed_users_admin
       /\ UNCHANGED <<rate_vars, view_vars, run_start, site_vars>>
    \/ /\ seed_earnings_begin
       /\ UNCHANGED <<rate_vars, view_vars, run_start, site_vars>>
    \/ /\ \E c \in DOMAIN cmd.creators, ty \in SeedEarningsTypes : seed_earnings(c, ty)
       /\ UNCHANGED <<rate_vars, view_vars, run_start, site_vars>>
    \/ /\ seed_payout_requests_begin
       /\ UNCHANGED <<rate_vars, view_vars, run_start, site_vars>>
    \/ /\ seed_done
       /\ UNCHANGED <<rate_vars, view_vars, run_start, site_vars>>
    \/ /\ \E c \in DOMAIN users, a \in AdminEarningAmounts,
             v \in PublishedVideos \cup {NULL}, s \in LiveStreams \cup {NULL},
             vc \in VideoCalls \cup {NULL} :
             EarningsRecordAdmin_add_references(c, "bonus", a, v, s, vc)
       /\ UNCHANGED <<rate_vars, view_vars, run_start, site_vars>>

SpecReferences == Init /\ [][NextReferences]_vars

\* the reference fields of an earnings entry that are set
References(e) == {f \in {"video", "live_stream", "video_call"} : earnings[e][f] # NULL}

\* C21: every earnings entry has at most one of its video, live_stream and
\* video_call fields set.
C21_AtMostOneReference ==
    \A e \in DOMAIN earnings : Cardinality(References(e)) <= 1

(* ------------------- access to premium and paid videos ---------------- *)

\* the database after a run of seed_data with one creator (user 2), one
\* other user (user 3) and three published videos of the creator: a free,
\* a premium and a pay-per-view one; the run stands before
\* seed_subscriptions
InitAccess ==
    /\ users = Insert(Insert(Insert(<<>>, 1, AdminUser), 2, SeededUser(TRUE, USD(100), USD(100))),
                      3, SeededUser(FALSE, 0, 0))
    /\ next_user_id = 4
    /\ earnings = <<>>
    /\ payouts = <<>>
    /\ next_earning_id = 1
    /\ next_payout_id = 1
    /\ cmd = [pc |-> "seed_subscriptions", creators |-> <<>>]
    /\ rates = <<>>
    /\ next_rate_id = 1
    /\ videos = Insert(Insert(Insert(<<>>, 1,
           [creator |-> 2, video_type |-> "free", status |-> "published",
            view_count |-> ViewCountSample]), 2,
           [creator |-> 2, video_type |-> "premium", status |-> "published",
            view_count |-> ViewCountSample]), 3,
           [creator |-> 2, video_type |-> "pay_per_view", status |-> "published",
            view_count |-> ViewCountSample])
    /\ video_views = <<>>
    /\ next_view_id = 1
    /\ requests = <<>>
    /\ run_start = [next_earning_id |-> 1, next_payout_id |-> 1]
    /\ InitSite

\* seed_subscriptions, one iteration: get_or_create of the subscription of
\* a user to a creator, its status drawn from active and cancelled
seed_subscriptions(subscriber, creator, status) ==
    /\ cmd.pc = "seed_subscriptions"
    /\ subscriber \in DOMAIN users
    /\ creator \in DOMAIN users
    /\ users[creator].is_creator
    /\ subscriber # creator
    /\ status \in {"active", "cancelled"}
    /\ subscriptions' =
          IF \E sub \in subscriptions : sub.subscriber = subscriber /\ sub.creator = creator
          THEN subscriptions
          ELSE subscriptions \cup
                  {[subscriber |-> subscriber, creator |-> creator, status |-> status]}
    /\ UNCHANGED <<video_purchases, video_downloads, download_requests>>

\* purchase_video, a POST of a logged-in user: videos that are neither
\* premium nor pay-per-view and videos the user has a purchase of redirect
\* to the video page; otherwise a purchase is created, payment_status
\* keeping its default 'completed'
purchase_video(user, v) ==
    /\ user \in DOMAIN users
    /\ v \in DOMAIN videos
    /\ video_purchases' =
          IF \/ videos[v].video_type \notin {"premium", "pay_per_view"}
             \/ \E pur \in video_purchases : pur.video = v /\ pur.user = user
          THEN video_purchases
          ELSE video_purchases \cup
                  {[video |-> v, user |-> user, payment_status |-> "completed"]}
    /\ UNCHANGED <<subscriptions, video_downloads, download_requests>>

\* the visitors of the steps below: an anonymous one and the user 3
AccessVisitors == {NULL, 3}

NextAccess ==
    \/ /\ \E s \in AccessVisitors \ {NULL}, c \in DOMAIN users, st \in {"active", "cancelled"} :
             seed_subscriptions(s, c, st)
       /\ UNCHANGED <<ledger_vars, rate_vars, view_vars, run_start,
                      stream_vars, like_vars, rec_vars, follow_vars>>
    \/ /\ \E u \in AccessVisitors \ {NULL}, v \in DOMAIN videos : purchase_video(u, v)
       /\ UNCHANGED <<ledger_vars, rate_vars, view_vars, run_start,
                      stream_vars, like_vars, rec_vars, follow_vars>>
    \/ /\ \E u \in AccessVisitors, v \in DOMAIN videos : video_detail(u, v)
       /\ UNCHANGED <<rate_vars, run_start, site_vars>>
    \/ /\ \E r \in DOMAIN requests : track_video_view_create(r)
       /\ UNCHANGED <<rate_vars, run_start, site_vars>>
    \/ /\ \E r \in DOMAIN requests : track_video_view_save_video(r)
       /\ UNCHANGED <<rate_vars, run_start, site_vars>>
    \/ /\ \E r \in DOMAIN requests : track_video_view_save_creator(r)
       /\ UNCHANGED <<rate_vars, run_start, site_vars>>
    \/ /\ \E r \in DOMAIN requests : video_detail_render(r)
       /\ UNCHANGED <<rate_vars, run_start, site_vars>>

SpecAccess == InitAccess /\ [][NextAccess]_vars

\* the user has an active subscription to the creator
ActiveSubscriber(user, creator) ==
    \E sub \in subscriptions :
       sub.subscriber = user /\ sub.creator = creator /\ sub.status = "active"

\* the user has a completed purchase of the video
Purchased(user, v) ==
    \E pur \in video_purchases :
       pur.user = user /\ pur.video = v /\ pur.payment_status = "completed"

\* C22: every video_detail request of a logged-in user for a premium video
\* is granted access, and goes on to track the view, when the user has an
\* active subscription to the creator or a completed purchase of the video.
C22_PurchaseOrSubscriptionGrantsAccess ==
    [][Len(requests') = Len(requests) + 1
          => LET q == requests'[Len(requests')]
             IN  (/\ videos[q.video_id].video_type = "premium"
                  /\ q.user # NULL
                  /\ \/ ActiveSubscriber(q.user, videos[q.video_id].creator)
                     \/ Purchased(q.user, q.video_id))
                    => q.has_access /\ q.pc = "create_view"]_vars

(* -------------------------- download tokens --------------------------- *)

\* rows ever inserted into the video_downloads table
MaxDownloads == 2

\* seed_videos: a video is published or a draft, and allows downloads or
\* does not; download_count keeps its default
VideoProfiles ==
    {[status |-> "published", allow_downloads |-> TRUE],
     [status |-> "published", allow_downloads |-> FALSE],
     [status |-> "draft", allow_downloads |-> TRUE]}

SeededVideo(video_type, profile) ==
    [creator |-> 2, video_type |-> video_type, status |-> profile.status,
     allow_downloads |-> profile.allow_downloads,
     download_count |-> 0, view_count |-> ViewCountSample]

\* the database after a run of seed_data with one creator (user 2), one
\* other user (user 3) and a free, a premium and a pay-per-view video of
\* the creator; the run stands before seed_subscriptions
InitDownloads ==
    /\ users = Insert(Insert(Insert(<<>>, 1, AdminUser), 2, SeededUser(TRUE, USD(100), USD(100))),
                      3, SeededUser(FALSE, 0, 0))
    /\ next_user_id = 4
    /\ earnings = <<>>
    /\ payouts = <<>>
    /\ next_earning_id = 1
    /\ next_payout_id = 1
    /\ cmd = [pc |-> "seed_subscriptions", creators |-> <<>>]
    /\ rates = <<>>
    /\ next_rate_id = 1
    /\ \E p1 \in VideoProfiles, p2 \in VideoProfiles, p3 \in VideoProfiles :
          videos = Insert(Insert(Insert(<<>>, 1, SeededVideo("free", p1)),
                                 2, SeededVideo("premium", p2)),
                          3, SeededVideo("pay_per_view", p3))
    /\ video_views = <<>>
    /\ next_view_id = 1
    /\ requests = <<>>
    /\ run_start = [next_earning_id |-> 1, next_payout_id |-> 1]
    /\ InitSite

\* the access check with every request let through
download_has_access_open(v, user) == TRUE

\* download_video, lines 753-766, and generate_new_download_link, lines
\* 895-907: a premium video needs an active subscription to its creator, a
\* pay-per-view video a completed purchase
download_has_access(v, user) ==
    IF videos[v].video_type = "premium"
    THEN ActiveSubscriber(user, videos[v].creator)
    ELSE IF videos[v].video_type = "pay_per_view"
         THEN Purchased(user, v)
         ELSE TRUE

\* the request creates a download record: the video is published (404
\* otherwise), allows downloads (PermissionDenied or an error otherwise) and
\* the user has access (a redirect or an error otherwise)
download_granted(v, user) ==
    /\ videos[v].status = "published"
    /\ videos[v].allow_downloads
    /\ download_has_access(v, user)

\* VideoDownload.objects.create: is_used keeps its default
NewDownload(v, user) == [video |-> v, user |-> user, is_used |-> FALSE]

\* download_video of a logged-in user: the record is created and the
\* video saved with download_count + 1
download_video(user, v) ==
    /\ user \in DOMAIN users
    /\ v \in DOMAIN videos
    /\ Len(video_downloads) < MaxDownloads
    /\ IF download_granted(v, user)
       THEN /\ video_downloads' = Append(video_downloads, NewDownload(v, user))
            /\ videos' = [videos EXCEPT ![v].download_count = @ + 1]
       ELSE UNCHANGED <<video_downloads, videos>>
    /\ UNCHANGED <<subscriptions, video_purchases, download_requests>>

\* generate_new_download_link of a logged-in user: the record is created,
\* the video is not saved
generate_new_download_link(user, v) ==
    /\ user \in DOMAIN users
    /\ v \in DOMAIN videos
    /\ Len(video_downloads) < MaxDownloads
    /\ IF download_granted(v, user)
       THEN video_downloads' = Append(video_downloads, NewDownload(v, user))
       ELSE UNCHANGED video_downloads
    /\ UNCHANGED <<videos, subscriptions, video_purchases, download_requests>>

NextDownloads ==
    \/ /\ \E s \in AccessVisitors \ {NULL}, c \in DOMAIN users, st \in {"active", "cancelled"} :
             seed_subscriptions(s, c, st)
       /\ UNCHANGED <<ledger_vars, rate_vars, view_vars, run_start,
                      stream_vars, like_vars, rec_vars, follow_vars>>
    \/ /\ \E u \in AccessVisitors \ {NULL}, v \in DOMAIN videos : purchase_video(u, v)
       /\ UNCHANGED <<ledger_vars, rate_vars, view_vars, run_start,
                      stream_vars, like_vars, rec_vars, follow_vars>>
    \/ /\ \E u \in AccessVisitors \ {NULL}, v \in DOMAIN videos : download_video(u, v)
       /\ UNCHANGED <<ledger_vars, rate_vars, video_views, next_view_id, requests, run_start,
                      stream_vars, like_vars, rec_vars, follow_vars>>
    \/ /\ \E u \in AccessVisitors \ {NULL}, v \in DOMAIN videos :
             generate_new_download_link(u, v)
       /\ UNCHANGED <<ledger_vars, rate_vars, video_views, next_view_id, requests, run_start,
                      stream_vars, like_vars, rec_vars, follow_vars>>

SpecDownloads == InitDownloads /\ [][NextDownloads]_vars

\* C30: a step that adds a download record adds one record, for a video
\* that is published and allows downloads and, when premium, for a user with
\* an active subscription to the creator, when pay-per-view, for a user with
\* a completed purchase; a step that adds none leaves every download_count
\* as it was.
C30_DownloadOnlyWithAccess ==
    [][IF video_downloads' # video_downloads
       THEN /\ Len(video_downloads') = Len(video_downloads) + 1
            /\ LET d == video_downloads'[Len(video_downloads')]
               IN  /\ videos[d.video].status = "published"
                   /\ videos[d.video].allow_downloads
                   /\ videos[d.video].video_type = "premium"
                         => ActiveSubscriber(d.user, videos[d.video].creator)
                   /\ videos[d.video].video_type = "pay_per_view"
                         => Purchased(d.user, d.video)
       ELSE \A v \in DOMAIN videos : videos'[v].download_count = videos[v].download_count]_vars

\* download records of a premium and of a pay-per-view video exist, and a
\* video without access stands by: one that does not allow downloads or is
\* a draft
C30_Witness ==
    /\ \E d \in DOMAIN video_downloads : videos[video_downloads[d].video].video_type = "premium"
    /\ \E d \in DOMAIN video_downloads :
          videos[video_downloads[d].video].video_type = "pay_per_view"
    /\ \E v \in DOMAIN videos : ~videos[v].allow_downloads \/ videos[v].status = "draft"

(* ---------------------- use of a download token ----------------------- *)

\* initiate_download requests ever started
MaxDownloadRequests == 3

\* the database with a free, published video that allows downloads, and the
\* users of InitDownloads
InitTokens ==
    /\ users = Insert(Insert(Insert(<<>>, 1, AdminUser), 2, SeededUser(TRUE, USD(100), USD(100))),
                      3, SeededUser(FALSE, 0, 0))
    /\ next_user_id = 4
    /\ earnings = <<>>
    /\ payouts = <<>>
    /\ next_earning_id = 1
    /\ next_payout_id = 1
    /\ cmd = [pc |-> "idle", creators |-> <<>>]
    /\ rates = <<>>
    /\ next_rate_id = 1
    /\ videos = Insert(<<>>, 1,
           SeededVideo("free", [status |-> "published", allow_downloads |-> TRUE]))
    /\ video_views = <<>>
    /\ next_view_id = 1
    /\ requests = <<>>
    /\ run_start = [next_earning_id |-> 1, next_payout_id |-> 1]
    /\ InitSite

\* initiate_download up to the validation: the record of the token is
\* loaded for its user (404 for another user) and a record already used
\* answers with an error.  Requests arrive before expires_at and the video
\* file is on disk.
initiate_download(user, d) ==
    /\ Len(download_requests) < MaxDownloadRequests
    /\ d \in DOMAIN video_downloads
    /\ video_downloads[d].user = user
    /\ download_requests' = Append(download_requests,
           [pc |-> IF video_downloads[d].is_used THEN "error" ELSE "save",
            download_id |-> d, download |-> video_downloads[d]])
    /\ UNCHANGED <<video_downloads, subscriptions, video_purchases>>

\* initiate_download, download.is_used = True; download.save() and the
\* response with the file: the row is written back from the instance the
\* request loaded
initiate_download_save(r) ==
    /\ r \in DOMAIN download_requests
    /\ download_requests[r].pc = "save"
    /\ video_downloads' = [video_downloads EXCEPT ![download_requests[r].download_id] =
                             [download_requests[r].download EXCEPT !.is_used = TRUE]]
    /\ download_requests' = [download_requests EXCEPT ![r].pc = "file"]
    /\ UNCHANGED <<subscriptions, video_purchases>>

NextTokens ==
    \/ /\ \E u \in AccessVisitors \ {NULL}, v \in DOMAIN videos : download_video(u, v)
       /\ UNCHANGED <<ledger_vars, rate_vars, video_views, next_view_id, requests, run_start,
                      stream_vars, like_vars, rec_vars, follow_vars>>
    \/ /\ \E u \in AccessVisitors \ {NULL}, v \in DOMAIN videos :
             generate_new_download_link(u, v)
       /\ UNCHANGED <<ledger_vars, rate_vars, video_views, next_view_id, requests, run_start,
                      stream_vars, like_vars, rec_vars, follow_vars>>
    \/ /\ \E u \in AccessVisitors \ {NULL}, d \in DOMAIN video_downloads : initiate_download(u, d)
       /\ UNCHANGED <<ledger_vars, rate_vars, view_vars, run_start,
                      stream_vars, like_vars, rec_vars, follow_vars>>
    \/ /\ \E r \in DOMAIN download_requests : initiate_download_save(r)
       /\ UNCHANGED <<ledger_vars, rate_vars, view_vars, run_start,
                      stream_vars, like_vars, rec_vars, follow_vars>>

SpecTokens == InitTokens /\ [][NextTokens]_vars

\* the initiate_download requests that returned the file of download d
FileReturned(d) ==
    {r \in DOMAIN download_requests :
        download_requests[r].download_id = d /\ download_requests[r].pc = "file"}

\* C23: for every download record, at most one initiate_download request
\* has returned the file.
C23_TokenIsSingleUse ==
    \A d \in DOMAIN video_downloads : Cardinality(FileReturned(d)) <= 1

(* --------------------------- live streams ----------------------------- *)

\* join_stream and leave_stream requests ever started
MaxStreamRequests == 3

\* timezone.now() of leave_stream
Now == 1

\* the database after seed_users and seed_live_streams with a premium and
\* a free stream of the creator; seed_data writes no ticket and no viewer
InitStreams ==
    /\ users = Insert(Insert(Insert(<<>>, 1, AdminUser), 2, SeededUser(TRUE, USD(100), USD(100))),
                      3, SeededUser(FALSE, 0, 0))
    /\ next_user_id = 4
    /\ earnings = <<>>
    /\ payouts = <<>>
    /\ next_earning_id = 1
    /\ next_payout_id = 1
    /\ cmd = [pc |-> "idle", creators |-> <<>>]
    /\ rates = <<>>
    /\ next_rate_id = 1
    /\ videos = <<>>
    /\ video_views = <<>>
    /\ next_view_id = 1
    /\ requests = <<>>
    /\ run_start = [next_earning_id |-> 1, next_payout_id |-> 1]
    /\ subscriptions = {}
    /\ video_purchases = {}
    /\ video_downloads = <<>>
    /\ download_requests = <<>>
    /\ live_streams = Insert(Insert(<<>>, 1, [creator |-> 2, stream_type |-> "premium"]),
                             2, [creator |-> 2, stream_type |-> "free"])
    /\ tickets = {}
    /\ stream_viewers = <<>>
    /\ stream_requests = <<>>
    /\ video_likes = {}
    /\ recommendations = <<>>
    /\ index_requests = <<>>
    /\ follows = <<>>
    /\ follow_requests = <<>>

\* stream_purchase, a POST of a logged-in user: a stream that is not
\* premium and a stream the user has a ticket of redirect to the stream
\* page; otherwise a ticket is created
stream_purchase(user, s) ==
    /\ user \in DOMAIN users
    /\ s \in DOMAIN live_streams
    /\ tickets' =
          IF \/ live_streams[s].stream_type # "premium"
             \/ \E t \in tickets : t.stream = s /\ t.user = user
          THEN tickets
          ELSE tickets \cup {[stream |-> s, user |-> user]}
    /\ UNCHANGED <<live_streams, stream_viewers, stream_requests>>

\* the ticket check left out
has_ticket_unchecked(s, user) == TRUE

\* join_stream, stream.tickets.filter(user=request.user).exists()
has_ticket(s, user) == \E t \in tickets : t.stream = s /\ t.user = user

\* the viewer rows of a stream and a user
ViewersOf(s, user) ==
    {i \in DOMAIN stream_viewers :
        stream_viewers[i].stream = s /\ stream_viewers[i].user = user}

\* the lookup of get_or_create and of get by stream and user: the INSERT
\* follows when there is no row, the save when there is one, and
\* MultipleObjectsReturned is raised when there are several
Lookup(s, user, missing) ==
    IF ViewersOf(s, user) = {} THEN [pc |-> missing, viewer_id |-> NULL]
    ELSE IF Cardinality(ViewersOf(s, user)) = 1
         THEN [pc |-> "save", viewer_id |-> CHOOSE i \in ViewersOf(s, user) : TRUE]
         ELSE [pc |-> "error", viewer_id |-> NULL]

\* join_stream up to the SELECT of get_or_create: a premium stream without
\* a ticket of the user redirects to the purchase page
join_stream(user, s) ==
    /\ Len(stream_requests) < MaxStreamRequests
    /\ user \in DOMAIN users
    /\ s \in DOMAIN live_streams
    /\ LET found == Lookup(s, user, "create")
           denied == live_streams[s].stream_type = "premium" /\ ~has_ticket(s, user)
       IN  stream_requests' = Append(stream_requests,
              [view |-> "join_stream", stream |-> s, user |-> user,
               pc |-> IF denied THEN "redirect_purchase" ELSE found.pc,
               viewer_id |-> IF denied THEN NULL ELSE found.viewer_id,
               viewer |-> IF ~denied /\ found.pc = "save"
                          THEN stream_viewers[found.viewer_id] ELSE NULL])
    /\ UNCHANGED <<live_streams, tickets, stream_viewers>>

\* join_stream, the INSERT of get_or_create: the table has no unique
\* constraint on stream and user, the row is inserted whatever rows exist
join_stream_create(r) ==
    /\ r \in DOMAIN stream_requests
    /\ stream_requests[r].view = "join_stream"
    /\ stream_requests[r].pc = "create"
    /\ stream_viewers' = Append(stream_viewers,
           [stream |-> stream_requests[r].stream, user |-> stream_requests[r].user,
            is_active |-> TRUE, left_at |-> NULL])
    /\ stream_requests' = [stream_requests EXCEPT ![r].pc = "done"]
    /\ UNCHANGED <<live_streams, tickets>>

\* join_stream, viewer.is_active = True; viewer.save() of a row found
join_stream_save(r) ==
    /\ r \in DOMAIN stream_requests
    /\ stream_requests[r].view = "join_stream"
    /\ stream_requests[r].pc = "save"
    /\ stream_viewers' = [stream_viewers EXCEPT ![stream_requests[r].viewer_id] =
                            [stream_requests[r].viewer EXCEPT !.is_active = TRUE]]
    /\ stream_requests' = [stream_requests EXCEPT ![r].pc = "done"]
    /\ UNCHANGED <<live_streams, tickets>>

\* leave_stream up to the lookup: DoesNotExist is caught and the request
\* ends, MultipleObjectsReturned is not caught
leave_stream(user, s) ==
    /\ Len(stream_requests) < MaxStreamRequests
    /\ user \in DOMAIN users
    /\ s \in DOMAIN live_streams
    /\ LET found == Lookup(s, user, "done")
       IN  stream_requests' = Append(stream_requests,
              [view |-> "leave_stream", stream |-> s, user |-> user,
               pc |-> found.pc, viewer_id |-> found.viewer_id,
               viewer |-> IF found.pc = "save" THEN stream_viewers[found.viewer_id] ELSE NULL])
    /\ UNCHANGED <<live_streams, tickets, stream_viewers>>

\* leave_stream, viewer.is_active = False; viewer.left_at = now;
\* viewer.save()
leave_stream_save(r) ==
    /\ r \in DOMAIN stream_requests
    /\ stream_requests[r].view = "leave_stream"
    /\ stream_requests[r].pc = "save"
    /\ stream_viewers' = [stream_viewers EXCEPT ![stream_requests[r].viewer_id] =
                            [stream_requests[r].viewer EXCEPT !.is_active = FALSE,
                                                              !.left_at = Now]]
    /\ stream_requests' = [stream_requests EXCEPT ![r].pc = "done"]
    /\ UNCHANGED <<live_streams, tickets>>

\* the user of the requests below
StreamVisitors == {3}

NextStreams ==
    \/ /\ \E u \in StreamVisitors, s \in DOMAIN live_streams : stream_purchase(u, s)
       /\ UNCHANGED <<ledger_vars, rate_vars, view_vars, run_start,
                      access_vars, like_vars, rec_vars, follow_vars>>
    \/ /\ \E u \in StreamVisitors, s \in DOMAIN live_streams : join_stream(u, s)
       /\ UNCHANGED <<ledger_vars, rate_vars, view_vars, run_start,
                      access_vars, like_vars, rec_vars, follow_vars>>
    \/ /\ \E r \in DOMAIN stream_requests : join_stream_create(r)
       /\ UNCHANGED <<ledger_vars, rate_vars, view_vars, run_start,
                      access_vars, like_vars, rec_vars, follow_vars>>
    \/ /\ \E r \in DOMAIN stream_requests : join_stream_save(r)
       /\ UNCHANGED <<ledger_vars, rate_vars, view_vars, run_start,
                      access_vars, like_vars, rec_vars, follow_vars>>
    \/ /\ \E u \in StreamVisitors, s \in DOMAIN live_streams : leave_stream(u, s)
       /\ UNCHANGED <<ledger_vars, rate_vars, view_vars, run_start,
                      access_vars, like_vars, rec_vars, follow_vars>>
    \/ /\ \E r \in DOMAIN stream_requests : leave_stream_save(r)
       /\ UNCHANGED <<ledger_vars, rate_vars, view_vars, run_start,
                      access_vars, like_vars, rec_vars, follow_vars>>

SpecStreams == InitStreams /\ [][NextStreams]_vars

\* the viewer rows the step inserts or turns active
MadeActive ==
    {i \in DOMAIN stream_viewers' :
        /\ stream_viewers'[i].is_active
        /\ i \in DOMAIN stream_viewers => ~stream_viewers[i].is_active}

\* the step starts a join_stream request of a premium stream by a user
\* without a ticket
JoinsWithoutTicket ==
    /\ Len(stream_requests') = Len(stream_requests) + 1
    /\ LET q == stream_requests'[Len(stream_requests')]
       IN  /\ q.view = "join_stream"
           /\ live_streams[q.stream].stream_type = "premium"
           /\ \A t \in tickets : ~(t.stream = q.stream /\ t.user = q.user)

\* C24: every active viewer of a premium stream has a ticket; a step that
\* inserts a viewer row of a premium stream or turns one active does it for
\* a user with a ticket; a join_stream request of a premium stream by a user
\* without a ticket ends at the redirect to the purchase page with the
\* viewer rows unchanged, and a request ended there takes no further step.
C24_JoinNeedsTicket ==
    /\ [](\A i \in DOMAIN stream_viewers :
             /\ stream_viewers[i].is_active
             /\ live_streams[stream_viewers[i].stream].stream_type = "premium"
             => \E t \in tickets :
                   t.stream = stream_viewers[i].stream /\ t.user = stream_viewers[i].user)
    /\ [][/\ \A i \in MadeActive :
                live_streams[stream_viewers'[i].stream].stream_type = "premium"
                   => \E t \in tickets :
                         /\ t.stream = stream_viewers'[i].stream
                         /\ t.user = stream_viewers'[i].user
          /\ JoinsWithoutTicket
                => /\ stream_requests'[Len(stream_requests')].pc = "redirect_purchase"
                   /\ stream_viewers' = stream_viewers
          /\ \A r \in DOMAIN stream_requests :
                stream_requests[r].pc = "redirect_purchase"
                   => stream_requests'[r] = stream_requests[r]]_vars

\* a join_stream request of the premium stream was turned away, and after
\* the purchase of a ticket the user is an active viewer of the stream
C24_Witness ==
    /\ \E r \in DOMAIN stream_requests : stream_requests[r].pc = "redirect_purchase"
    /\ \E i \in DOMAIN stream_viewers :
          /\ stream_viewers[i].is_active
          /\ live_streams[stream_viewers[i].stream].stream_type = "premium"

\* C29: every stream and user have at most one viewer row, and no
\* join_stream or leave_stream request fails at the lookup of the row.
C29_OneViewerRowPerPair ==
    /\ \A s \in DOMAIN live_streams, u \in DOMAIN users : Cardinality(ViewersOf(s, u)) <= 1
    /\ \A r \in DOMAIN stream_requests : stream_requests[r].pc # "error"

(* ------------------------- likes and dislikes ------------------------- *)

\* a video as Video.objects.create leaves it: the counters at their
\* default
UploadedVideo ==
    [creator |-> 2, video_type |-> "free", status |-> "published",
     like_count |-> 0, dislike_count |-> 0, view_count |-> 0]

\* two users besides the admin and two videos nobody has liked yet
InitLikes ==
    /\ users = Insert(Insert(Insert(<<>>, 1, AdminUser), 2, SeededUser(TRUE, USD(100), USD(100))),
                      3, SeededUser(FALSE, 0, 0))
    /\ next_user_id = 4
    /\ earnings = <<>>
    /\ payouts = <<>>
    /\ next_earning_id = 1
    /\ next_payout_id = 1
    /\ cmd = [pc |-> "idle", creators |-> <<>>]
    /\ rates = <<>>
    /\ next_rate_id = 1
    /\ videos = Insert(Insert(<<>>, 1, UploadedVideo), 2, UploadedVideo)
    /\ video_views = <<>>
    /\ next_view_id = 1
    /\ requests = <<>>
    /\ run_start = [next_earning_id |-> 1, next_payout_id |-> 1]
    /\ InitSite

\* the values of the POST parameter 'action': the two the view names and
\* one other (the parameter left empty)
LikeActions == {"like", "dislike", ""}

\* VideoLike.objects.filter(video=video, is_like=...).count()
LikeRows(likes, v, is_like) == {l \in likes : l.video = v /\ l.is_like = is_like}

\* like_video, a POST of a logged-in user: the user's row for the video is
\* deleted; for 'like' and 'dislike' a new row is created and the two
\* counters of the video are counted again and saved
like_video(user, v, action) ==
    /\ user \in DOMAIN users
    /\ v \in DOMAIN videos
    /\ action \in LikeActions
    /\ LET deleted == {l \in video_likes : ~(l.video = v /\ l.user = user)}
           created == deleted \cup {[video |-> v, user |-> user, is_like |-> (action = "like")]}
       IN  IF action \in {"like", "dislike"}
           THEN /\ video_likes' = created
                /\ videos' = [videos EXCEPT
                      ![v].like_count = Cardinality(LikeRows(created, v, TRUE)),
                      ![v].dislike_count = Cardinality(LikeRows(created, v, FALSE))]
           ELSE /\ video_likes' = deleted
                /\ UNCHANGED videos

\* the users of the requests below
LikeVisitors == {2, 3}

NextLikes ==
    /\ \E u \in LikeVisitors, v \in DOMAIN videos, a \in LikeActions : like_video(u, v, a)
    /\ UNCHANGED <<ledger_vars, rate_vars, video_views, next_view_id, requests, run_start,
                   access_vars, stream_vars, rec_vars, follow_vars>>

SpecLikes == InitLikes /\ [][NextLikes]_vars

\* C25: for every video, like_count is the number of its VideoLike rows
\* with is_like and dislike_count the number of those without, and every
\* video and user have at most one row.
C25_CountsMatchRows ==
    /\ \A v \in DOMAIN videos :
          /\ videos[v].like_count = Cardinality(LikeRows(video_likes, v, TRUE))
          /\ videos[v].dislike_count = Cardinality(LikeRows(video_likes, v, FALSE))
    /\ \A v \in DOMAIN videos, u \in DOMAIN users :
          Cardinality({l \in video_likes : l.video = v /\ l.user = u}) <= 1

(* ------------------------------ follows ------------------------------- *)

\* follow_channel requests ever started
MaxFollowRequests == 3

\* a channel nobody follows yet (user 1, total_followers at its default)
\* and two other users
InitFollows ==
    /\ users = Insert(Insert(Insert(<<>>, 1, AdminUser), 2, SeededUser(FALSE, 0, 0)),
                      3, SeededUser(FALSE, 0, 0))
    /\ next_user_id = 4
    /\ earnings = <<>>
    /\ payouts = <<>>
    /\ next_earning_id = 1
    /\ next_payout_id = 1
    /\ cmd = [pc |-> "idle", creators |-> <<>>]
    /\ rates = <<>>
    /\ next_rate_id = 1
    /\ videos = <<>>
    /\ video_views = <<>>
    /\ next_view_id = 1
    /\ requests = <<>>
    /\ run_start = [next_earning_id |-> 1, next_payout_id |-> 1]
    /\ InitSite

\* the lookup of get_or_create: the user follows the creator
Follows(rows, follower, following) ==
    \E i \in DOMAIN rows : rows[i].follower = follower /\ rows[i].following = following

\* Follow.objects.get_or_create(follower, following); unique_together
\* keeps a second row out
Follow_get_or_create(rows, follower, following) ==
    IF Follows(rows, follower, following)
    THEN rows
    ELSE Append(rows, [follower |-> follower, following |-> following])

\* Follow.objects.filter(follower, following).delete()
Follow_delete(rows, follower, following) ==
    LET Keep(row) == ~(row.follower = follower /\ row.following = following)
    IN  SelectSeq(rows, Keep)

\* Follow.objects.filter(following=creator).count()
FollowerCount(rows, creator) ==
    Cardinality({i \in DOMAIN rows : rows[i].following = creator})

\* the values of the POST parameter 'action': 'follow', and one of the
\* others, all of which unfollow
FollowActions == {"follow", "unfollow"}

\* follow_channel, a POST of a logged-in user for the channel of a creator,
\* up to the count: the creator is loaded and the Follow row is got or
\* created, or deleted
follow_channel(user, c, action) ==
    /\ Len(follow_requests) < MaxFollowRequests
    /\ user \in DOMAIN users
    /\ c \in DOMAIN users
    /\ users[c].is_creator
    /\ action \in FollowActions
    /\ follows' = IF action = "follow"
                  THEN Follow_get_or_create(follows, user, c)
                  ELSE Follow_delete(follows, user, c)
    /\ follow_requests' = Append(follow_requests,
           [pc |-> "count", user |-> user, creator_id |-> c, creator |-> users[c]])
    /\ UNCHANGED ledger_vars

\* follow_channel, creator.total_followers =
\* Follow.objects.filter(following=creator).count()
follow_channel_count(r) ==
    /\ r \in DOMAIN follow_requests
    /\ follow_requests[r].pc = "count"
    /\ follow_requests' = [follow_requests EXCEPT
          ![r].pc = "save",
          ![r].creator.total_followers = FollowerCount(follows, follow_requests[r].creator_id)]
    /\ UNCHANGED <<follows, ledger_vars>>

\* follow_channel, creator.save() and the response: the row is written
\* back from the instance the request loaded
follow_channel_save(r) ==
    /\ r \in DOMAIN follow_requests
    /\ follow_requests[r].pc = "save"
    /\ users' = [users EXCEPT ![follow_requests[r].creator_id] = follow_requests[r].creator]
    /\ follow_requests' = [follow_requests EXCEPT ![r].pc = "done"]
    /\ UNCHANGED <<follows, earnings, payouts, next_user_id, next_earning_id,
                   next_payout_id, cmd>>

\* the users of the requests below
FollowVisitors == {2, 3}

NextFollows ==
    \/ /\ \E u \in FollowVisitors, c \in DOMAIN users, a \in FollowActions :
             follow_channel(u, c, a)
       /\ UNCHANGED <<rate_vars, view_vars, run_start,
                      access_vars, stream_vars, like_vars, rec_vars>>
    \/ /\ \E r \in DOMAIN follow_requests : follow_channel_count(r)
       /\ UNCHANGED <<rate_vars, view_vars, run_start,
                      access_vars, stream_vars, like_vars, rec_vars>>
    \/ /\ \E r \in DOMAIN follow_requests : follow_channel_save(r)
       /\ UNCHANGED <<rate_vars, view_vars, run_start,
                      access_vars, stream_vars, like_vars, rec_vars>>

SpecFollows == InitFollows /\ [][NextFollows]_vars

\* the follow_channel requests for creator c that have answered, and those
\* under way
Answered(c) ==
    {r \in DOMAIN follow_requests :
        follow_requests[r].creator_id = c /\ follow_requests[r].pc = "done"}

UnderWay(c) ==
    {r \in DOMAIN follow_requests :
        follow_requests[r].creator_id = c /\ follow_requests[r].pc # "done"}

\* C28: once the follow_channel POSTs for a creator have answered,
\* total_followers of the creator is the number of Follow rows with the
\* creator as following; and every user and creator have at most one row.
C28_CountFollowsRows ==
    /\ \A c \in DOMAIN users :
          Answered(c) # {} /\ UnderWay(c) = {}
             => users[c].total_followers = FollowerCount(follows, c)
    /\ \A i, j \in DOMAIN follows :
          /\ follows[i].follower = follows[j].follower
          /\ follows[i].following = follows[j].following
          => i = j

(* ----------------------- homepage recommendations --------------------- *)

\* rows ever inserted into the video_recommendations table
MaxRecommendations == 3

\* index requests ever started
MaxIndexRequests == 2

\* index, line 64: the slice [:10] of the recommendations query
RecommendationLimit == 10

\* samples of Decimal(random.uniform(0.5, 1.0)), in units of 0.0001
ScoreSamples == {6000, 9000}

\* the database after seed_users and seed_videos; the run stands in the
\* recommendations loop of seed_recommendations
InitIndex ==
    /\ users = Insert(Insert(Insert(<<>>, 1, AdminUser), 2, SeededUser(TRUE, USD(100), USD(100))),
                      3, SeededUser(FALSE, 0, 0))
    /\ next_user_id = 4
    /\ earnings = <<>>
    /\ payouts = <<>>
    /\ next_earning_id = 1
    /\ next_payout_id = 1
    /\ cmd = [pc |-> "seed_recommendations", creators |-> <<>>]
    /\ rates = <<>>
    /\ next_rate_id = 1
    /\ videos = Insert(Insert(<<>>, 1, UploadedVideo), 2, UploadedVideo)
    /\ video_views = <<>>
    /\ next_view_id = 1
    /\ requests = <<>>
    /\ run_start = [next_earning_id |-> 1, next_payout_id |-> 1]
    /\ InitSite

\* seed_recommendations, one iteration of the recommendations loop:
\* is_shown is drawn at random
seed_recommendations(user, v, score, is_shown) ==
    /\ cmd.pc = "seed_recommendations"
    /\ Len(recommendations) < MaxRecommendations
    /\ user \in DOMAIN users
    /\ v \in DOMAIN videos
    /\ videos[v].status = "published"
    /\ score \in ScoreSamples
    /\ is_shown \in BOOLEAN
    /\ recommendations' = Append(recommendations,
           [user |-> user, video |-> v, score |-> score, is_shown |-> is_shown,
            shown_at |-> NULL])
    /\ UNCHANGED index_requests

\* the first n rows of the set in the order of '-score': rows of equal
\* score come in an order the database chooses
TopByScore(rows, n) ==
    {top \in SUBSET rows :
        /\ Cardinality(top) = Min(n, Cardinality(rows))
        /\ \A i \in top, j \in rows \ top :
              recommendations[i].score >= recommendations[j].score}

\* index of a logged-in user up to the UPDATE: the query for the user's
\* recommendations not shown yet, ordered by score and cut at ten, is run
\* and its rows kept for the template
index_select(user) ==
    /\ Len(index_requests) < MaxIndexRequests
    /\ user \in DOMAIN users
    /\ \E top \in TopByScore({i \in DOMAIN recommendations :
                                 /\ recommendations[i].user = user
                                 /\ ~recommendations[i].is_shown}, RecommendationLimit) :
          index_requests' = Append(index_requests,
             [pc |-> "update", user |-> user, recommended_ids |-> top])
    /\ UNCHANGED recommendations

\* index, VideoRecommendation.objects.filter(pk__in=recommended_ids)
\* .update(is_shown=True, shown_at=now), and the rest of the view: the
\* page is rendered with the rows of the query
index_update(r) ==
    /\ r \in DOMAIN index_requests
    /\ index_requests[r].pc = "update"
    /\ recommendations' =
          [i \in DOMAIN recommendations |->
              IF i \in index_requests[r].recommended_ids
              THEN [recommendations[i] EXCEPT !.is_shown = TRUE, !.shown_at = Now]
              ELSE recommendations[i]]
    /\ index_requests' = [index_requests EXCEPT ![r].pc = "rendered"]

\* index of an anonymous visitor: the block that binds recommended_videos
\* is skipped and the name is read when the context is built, which raises
\* UnboundLocalError
index_anonymous ==
    /\ Len(index_requests) < MaxIndexRequests
    /\ index_requests' = Append(index_requests,
          [pc |-> "error", user |-> NULL, recommended_ids |-> {}])
    /\ UNCHANGED recommendations

\* the user of the requests below
IndexVisitors == {3}

NextIndex ==
    \/ /\ \E u \in IndexVisitors, v \in DOMAIN videos, sc \in ScoreSamples, sh \in BOOLEAN :
             seed_recommendations(u, v, sc, sh)
       /\ UNCHANGED <<ledger_vars, rate_vars, view_vars, run_start,
                      access_vars, stream_vars, like_vars, follow_vars>>
    \/ /\ \E u \in IndexVisitors : index_select(u)
       /\ UNCHANGED <<ledger_vars, rate_vars, view_vars, run_start,
                      access_vars, stream_vars, like_vars, follow_vars>>
    \/ /\ \E r \in DOMAIN index_requests : index_update(r)
       /\ UNCHANGED <<ledger_vars, rate_vars, view_vars, run_start,
                      access_vars, stream_vars, like_vars, follow_vars>>
    \/ /\ index_anonymous
       /\ UNCHANGED <<ledger_vars, rate_vars, view_vars, run_start,
                      access_vars, stream_vars, like_vars, follow_vars>>

SpecIndex == InitIndex /\ [][NextIndex]_vars

\* the index requests that have rendered their page with recommendation i
HandedTo(i) ==
    {r \in DOMAIN index_requests :
        index_requests[r].pc = "rendered" /\ i \in index_requests[r].recommended_ids}

\* C26: every recommendation has been handed to at most one rendered
\* homepage, and every recommendation handed to one has is_shown set.
C26_HandedAtMostOnce ==
    \A i \in DOMAIN recommendations :
       /\ Cardinality(HandedTo(i)) <= 1
       /\ HandedTo(i) # {} => recommendations[i].is_shown

\* C27: no index request ends in an unhandled error.
C27_IndexAlwaysRenders ==
    \A r \in DOMAIN index_requests : index_requests[r].pc # "error"

====
